---- MODULE Spec2Model ----
(***************************************************************************)
(* Model of plugin-screen-recorder (src/src/main.rs): a single-shot toggle *)
(* that starts an ffmpeg capture of a selected screen region, or stops the *)
(* capture that the pid file names.                                        *)
(*                                                                         *)
(* Every invocation of the program is a short-lived process (a "slot" of   *)
(* Inv) that runs main -> run_record_action one blocking call at a time.   *)
(* The state shared between invocations is the pid file (PIDFILE) and the  *)
(* table of operating-system processes (the spawned ffmpeg encoders).      *)
(* Each action is one system call or external command of the source, with  *)
(* the local computation that follows it up to the next one.               *)
(*                                                                         *)
(* Modelling decisions:                                                    *)
(*  - pidfile = NoPid stands for "read_pid() yields None": the file is     *)
(*    absent (or holds no integer).                                        *)
(*  - child.id() yields a fresh pid; pids are not reused within the        *)
(*    window the model covers (MaxPid sessions).                           *)
(*  - coordinates are small, so i32 arithmetic never overflows.            *)
(***************************************************************************)
EXTENDS Integers, Sequences, FiniteSets, TLC

\* ---------------------------------------------------------------- bounds
\* concurrent invocations of the program (process slots)
NumInv == 2
\* capture processes that can be spawned in one behaviour
MaxPid == 2

\* ------------------------------------------------------ program constants
SNAP_MARGIN_PX == 50

Inv == 1..NumInv
Pids == 1..MaxPid
NoPid == 0

\* ------------------------------------------------------------- geometry
\* struct Rect / struct Monitor
MkRect(x, y, w, h) == [x |-> x, y |-> y, w |-> w, h |-> h]
NoRect == MkRect(0, 0, 0, 0)

\* Rust integer division and remainder truncate toward zero
TDiv(a, b) == IF a >= 0 THEN a \div b ELSE -((-a) \div b)
TRem(a, b) == a - b * TDiv(a, b)

\* str::parse::<i32> of one comma-separated token: Ok(val) or Err
Tok(n) == [ok |-> TRUE, val |-> n]
BadTok == [ok |-> FALSE, val |-> 0]

\* parse_selection_geometry: every token must parse, and there must be four
parse_selection_geometry(raw) ==
    IF \E k \in 1..Len(raw) : ~raw[k].ok
    THEN [ok |-> FALSE, rect |-> NoRect]
    ELSE IF Len(raw) # 4
         THEN [ok |-> FALSE, rect |-> NoRect]
         ELSE [ok |-> TRUE,
               rect |-> MkRect(raw[1].val, raw[2].val, raw[3].val, raw[4].val)]

\* containment with the right and bottom edges included
CenterInside_Closed(rect, monitor) ==
    LET center_x == rect.x + TDiv(rect.w, 2)
        center_y == rect.y + TDiv(rect.h, 2)
    IN /\ center_x >= monitor.x
       /\ center_x <= monitor.x + monitor.w
       /\ center_y >= monitor.y
       /\ center_y <= monitor.y + monitor.h

\* the closure of monitor_for_selection: half-open containment of the centre
CenterInside(rect, monitor) ==
    LET center_x == rect.x + TDiv(rect.w, 2)
        center_y == rect.y + TDiv(rect.h, 2)
    IN /\ center_x >= monitor.x
       /\ center_x < monitor.x + monitor.w
       /\ center_y >= monitor.y
       /\ center_y < monitor.y + monitor.h

\* monitor_for_selection, given xrandr_monitors()'s result: the first monitor
\* (in discovery order) that contains the centre, None if xrandr failed
monitor_for_selection(rect, xr) ==
    LET hits == {k \in 1..Len(xr.monitors) : CenterInside(rect, xr.monitors[k])}
    IN IF ~xr.ok \/ hits = {}
       THEN [some |-> FALSE, monitor |-> NoRect]
       ELSE [some |-> TRUE,
             monitor |-> xr.monitors[CHOOSE k \in hits : \A j \in hits : k <= j]]

\* clamp_to_bounds that moves the origin to the left/top edge without
\* shrinking the rectangle by the overflow
clamp_to_bounds_NoShrink(rect, bounds) ==
    LET r1 == IF rect.x < bounds.x THEN [rect EXCEPT !.x = bounds.x] ELSE rect
        r2 == IF r1.y < bounds.y THEN [r1 EXCEPT !.y = bounds.y] ELSE r1
        r3 == IF r2.x + r2.w > bounds.x + bounds.w
              THEN [r2 EXCEPT !.w = bounds.x + bounds.w - r2.x]
              ELSE r2
        r4 == IF r3.y + r3.h > bounds.y + bounds.h
              THEN [r3 EXCEPT !.h = bounds.y + bounds.h - r3.y]
              ELSE r3
    IN r4

\* clamp_to_bounds: the four ifs in source order
clamp_to_bounds(rect, bounds) ==
    LET r1 == IF rect.x < bounds.x
              THEN [rect EXCEPT !.w = rect.w - (bounds.x - rect.x), !.x = bounds.x]
              ELSE rect
        r2 == IF r1.y < bounds.y
              THEN [r1 EXCEPT !.h = r1.h - (bounds.y - r1.y), !.y = bounds.y]
              ELSE r1
        r3 == IF r2.x + r2.w > bounds.x + bounds.w
              THEN [r2 EXCEPT !.w = bounds.x + bounds.w - r2.x]
              ELSE r2
        r4 == IF r3.y + r3.h > bounds.y + bounds.h
              THEN [r3 EXCEPT !.h = bounds.y + bounds.h - r3.y]
              ELSE r3
    IN r4

\* the bottom-edge snap with the margin itself excluded
SnapBottom_Exclusive(rect, bottom) ==
    LET gap == bottom - (rect.y + rect.h)
    IN IF gap > 0 /\ gap < SNAP_MARGIN_PX
       THEN [rect EXCEPT !.h = bottom - rect.y]
       ELSE rect

\* run_record_action, the bottom-edge snap
SnapBottom(rect, bottom) ==
    LET gap == bottom - (rect.y + rect.h)
    IN IF gap > 0 /\ gap <= SNAP_MARGIN_PX
       THEN [rect EXCEPT !.h = bottom - rect.y]
       ELSE rect

\* the validity test off by one: only negative dimensions are rejected
InvalidArea_Negative(rect) == rect.w < 0 \/ rect.h < 0

\* run_record_action, the validity test that guards the failure return
InvalidArea(rect) == rect.w <= 0 \/ rect.h <= 0

\* even-dimension enforcement that rounds odd dimensions up
MakeEven_Up(rect) ==
    LET r1 == IF TRem(rect.w, 2) # 0 THEN [rect EXCEPT !.w = rect.w + 1] ELSE rect
    IN IF TRem(r1.h, 2) # 0 THEN [r1 EXCEPT !.h = r1.h + 1] ELSE r1

\* run_record_action, even-dimension enforcement
MakeEven(rect) ==
    LET r1 == IF TRem(rect.w, 2) # 0 THEN [rect EXCEPT !.w = rect.w - 1] ELSE rect
    IN IF TRem(r1.h, 2) # 0 THEN [r1 EXCEPT !.h = r1.h - 1] ELSE r1

\* ------------------------------------------------- inputs from the outside
\* Output of the external selector (slop): it cannot be run, it exits
\* non-zero, or it exits zero with the comma-separated tokens `out`
\* (<<>> is empty output).
Slop(status, out) == [status |-> status, out |-> out]
SelX == {-10, 0, 35}
SelY == {-10, 0, 70, 71, 90, 130}
SelW == {0, 1, 10, 21}
SelH == {0, 1, 9, 10, 21, 60}
Selections == {MkRect(x, y, w, h) : x \in SelX, y \in SelY, w \in SelW, h \in SelH}
RawOf(r) == <<Tok(r.x), Tok(r.y), Tok(r.w), Tok(r.h)>>
SlopFailures ==
    { Slop("noexec", <<>>), Slop("nonzero", <<>>), Slop("ok", <<>>),
      Slop("ok", <<Tok(1), Tok(2), Tok(3)>>),
      Slop("ok", <<BadTok, Tok(2), Tok(3), Tok(4)>>) }
\* every selector outcome (sequential runs)
SlopOutcomes == SlopFailures \cup {Slop("ok", RawOf(r)) : r \in Selections}
\* the selector outcomes of sequential runs: the failures, a valid region,
\* an empty region and a one-pixel-wide region
SeqSlopOutcomes ==
    SlopFailures \cup
    { Slop("ok", RawOf(MkRect(0, 0, 10, 10))),
      Slop("ok", RawOf(MkRect(0, 0, 0, 10))),
      Slop("ok", RawOf(MkRect(0, 0, 1, 10))) }
\* the selector outcomes used when invocations overlap
FewSlopOutcomes ==
    { Slop("noexec", <<>>), Slop("nonzero", <<>>),
      Slop("ok", <<Tok(1), Tok(2), Tok(3)>>),
      Slop("ok", RawOf(MkRect(0, 0, 10, 10))) }

\* Result of xrandr_monitors(): Err, or the monitors in discovery order
MonA == MkRect(0, 0, 40, 120)
MonB == MkRect(40, 0, 40, 120)
MonSmall == MkRect(0, 0, 40, 60)
Xrandr(ok, monitors) == [ok |-> ok, monitors |-> monitors]
XrandrOutcomes ==
    { Xrandr(FALSE, <<>>), Xrandr(TRUE, <<MonA, MonB>>), Xrandr(TRUE, <<MonSmall, MonA>>) }
FewXrandrOutcomes == { Xrandr(FALSE, <<>>), Xrandr(TRUE, <<MonA, MonB>>) }

\* Result of full_screen_monitor(): Err, or Monitor {0, 0, w, h}
FullScreen(ok, w, h) == [ok |-> ok, monitor |-> MkRect(0, 0, w, h)]
XdpyinfoOutcomes == { FullScreen(FALSE, 0, 0), FullScreen(TRUE, 80, 120) }

\* ------------------------------------------------------------- config
default_crf == 18
default_framerate == 60

\* struct AudioConfig
AudioConfig(enabled, inputs, mic_device, system_device) ==
    [enabled |-> enabled, inputs |-> inputs,
     mic_device |-> mic_device, system_device |-> system_device]

\* AudioConfig::default()
DefaultAudio == AudioConfig(TRUE, <<"mic">>, "default", "default")

\* VideoConfig::default()
DefaultVideo ==
    [crf |-> default_crf, preset |-> "veryfast",
     framerate |-> default_framerate, format |-> "mkv"]

\* Config::default()
DefaultConfig == [audio |-> DefaultAudio, video |-> DefaultVideo]

\* the value of `config` before load_config has run
NoConfig ==
    [audio |-> AudioConfig(FALSE, <<>>, "", ""),
     video |-> [crf |-> 0, preset |-> "", framerate |-> 0, format |-> ""]]

\* config.json: whether it can be read, whether it is valid JSON for Config,
\* whether it has an "audio" section, and that section
ConfigFile(readable, valid, has_audio, audio) ==
    [readable |-> readable, valid |-> valid, has_audio |-> has_audio,
     audio |-> audio]

\* no config.json in the plugin directory
MissingConfigFile == ConfigFile(FALSE, FALSE, FALSE, DefaultAudio)

\* audio.inputs: every order, duplicates and unknown names
InputLists ==
    { <<>>, <<"mic">>, <<"system">>, <<"mic", "system">>, <<"system", "mic">>,
      <<"mic", "mic">>, <<"system", "system", "mic">>, <<"other">>,
      <<"other", "system">> }

\* (mic_device, system_device)
DevicePairs == { <<"default", "default">>, <<"usb_mic", "hdmi_out">> }

ConfigFiles ==
    { MissingConfigFile,
      ConfigFile(TRUE, FALSE, FALSE, DefaultAudio),
      ConfigFile(TRUE, TRUE, FALSE, DefaultAudio) }
    \cup { ConfigFile(TRUE, TRUE, TRUE, AudioConfig(e, l, d[1], d[2])) :
             e \in BOOLEAN, l \in InputLists, d \in DevicePairs }

\* the specifications that do not look at the argument list run without a
\* config.json
NoConfigFiles == { MissingConfigFile }

\* load_config: Config::default() when the file cannot be read or parsed,
\* and for a section the file does not have
load_config(file) ==
    IF ~file.readable \/ ~file.valid
    THEN DefaultConfig
    ELSE [audio |-> IF file.has_audio THEN file.audio ELSE DefaultAudio,
          video |-> DefaultVideo]

\* inputs.iter().any(|input| input == name)
HasInput(inputs, name) == \E k \in 1..Len(inputs) : inputs[k] = name

\* start_recording's audio arguments with the single-mic branch tested first
AudioArgs_MicFirst(audio) ==
    IF ~audio.enabled THEN <<>>
    ELSE LET has_mic == HasInput(audio.inputs, "mic")
             has_system == HasInput(audio.inputs, "system")
         IN IF has_mic
            THEN <<"-f", "pulse", "-i", audio.mic_device,
                   "-c:a", "aac", "-b:a", "192k">>
            ELSE IF has_mic /\ has_system
            THEN <<"-f", "pulse", "-i", audio.mic_device,
                   "-f", "pulse", "-i", audio.system_device \o ".monitor",
                   "-filter_complex", "[1:a][2:a]amerge=inputs=2[aout]",
                   "-map", "0:v", "-map", "[aout]",
                   "-c:a", "aac", "-b:a", "192k">>
            ELSE IF has_system
            THEN <<"-f", "pulse", "-i", audio.system_device \o ".monitor",
                   "-c:a", "aac", "-b:a", "192k">>
            ELSE <<>>

\* start_recording: the arguments added by `if config.audio.enabled { .. }`
AudioArgs(audio) ==
    IF ~audio.enabled THEN <<>>
    ELSE LET has_mic == HasInput(audio.inputs, "mic")
             has_system == HasInput(audio.inputs, "system")
         IN IF has_mic /\ has_system
            THEN <<"-f", "pulse", "-i", audio.mic_device,
                   "-f", "pulse", "-i", audio.system_device \o ".monitor",
                   "-filter_complex", "[1:a][2:a]amerge=inputs=2[aout]",
                   "-map", "0:v", "-map", "[aout]",
                   "-c:a", "aac", "-b:a", "192k">>
            ELSE IF has_mic
            THEN <<"-f", "pulse", "-i", audio.mic_device,
                   "-c:a", "aac", "-b:a", "192k">>
            ELSE IF has_system
            THEN <<"-f", "pulse", "-i", audio.system_device \o ".monitor",
                   "-c:a", "aac", "-b:a", "192k">>
            ELSE <<>>

\* start_recording: the screen-grab input arguments
GrabArgs(r, video) ==
    <<"-f", "x11grab",
      "-video_size", ToString(r.w) \o "x" \o ToString(r.h),
      "-framerate", ToString(video.framerate),
      "-i", ":0.0+" \o ToString(r.x) \o "," \o ToString(r.y)>>

\* start_recording: the video codec arguments and the output file
CodecArgs(video, output_file) ==
    <<"-c:v", "libx264", "-crf", ToString(video.crf),
      "-preset", video.preset, "-pix_fmt", "yuv420p", output_file>>

\* output_file_path(format), at a fixed time of day
output_file_path(format) == "~/Videos/recording-T." \o format

\* start_recording: the whole argument list given to ffmpeg
EncoderArgs(r, cfg, output_file) ==
    GrabArgs(r, cfg.video) \o AudioArgs(cfg.audio)
        \o CodecArgs(cfg.video, output_file)

\* ---------------------------------------------------------------- state
VARIABLES
    pidfile,      \* PIDFILE: the pid it holds, NoPid when read_pid() is None
    procs,        \* /proc: each pid is "unborn", "running" or "dead"
    interrupted,  \* pids that have been delivered SIGINT
    nextpid,      \* the pid the next spawned child gets
    last,         \* what the most recently exited invocation did
    pc,           \* where each invocation is
    found,        \* run_record_action: pid from read_pid()
    rect,         \* run_record_action: rect
    bounds,       \* run_record_action: monitor / virtual_monitor
    child,        \* start_recording: pid of the spawned ffmpeg
    result,       \* value returned by run_record_action
    sent,         \* pids this invocation ran `kill -INT` on
    probed,       \* run_record_action: what process_exists(pid) said
    selection,    \* select_region: what the selector gave
    notified,     \* titles of the notifications this invocation showed
    exitcode,     \* main: the ExitCode, -1 while running
    stderr,       \* main: whether the error was printed on standard error
    config,       \* run_record_action: config
    args          \* start_recording: args

shared == <<pidfile, procs, interrupted, nextpid>>
locals == <<found, probed, rect, bounds, child, sent, selection,
                   config, args>>
vars == <<pidfile, procs, interrupted, nextpid, last, pc, found, probed, rect,
          bounds, child, result, sent, selection, notified, exitcode, stderr,
          config, args>>

Results ==
    { "none", "ok", "err_kill", "err_slop", "err_parse", "err_bounds",
      "err_region", "err_outdir", "err_log", "err_spawn", "err_pidwrite",
      "err_launch" }

\* process_exists(pid): /proc/<pid> exists
process_exists(pid) == pid \in Pids /\ procs[pid] = "running"

\* the capture processes that are running
Alive == {p \in Pids : procs[p] = "running"}

Init ==
    /\ pidfile = NoPid
    /\ procs = [p \in Pids |-> "unborn"]
    /\ interrupted = {}
    /\ nextpid = 1
    /\ last = [kind |-> "none", pid |-> NoPid]
    /\ pc = [i \in Inv |-> "idle"]
    /\ found = [i \in Inv |-> NoPid]
    /\ rect = [i \in Inv |-> NoRect]
    /\ bounds = [i \in Inv |-> NoRect]
    /\ child = [i \in Inv |-> NoPid]
    /\ result = [i \in Inv |-> "none"]
    /\ sent = [i \in Inv |-> {}]
    /\ probed = [i \in Inv |-> "none"]
    /\ selection = [i \in Inv |-> "none"]
    /\ notified = [i \in Inv |-> {}]
    /\ exitcode = [i \in Inv |-> -1]
    /\ stderr = [i \in Inv |-> FALSE]
    /\ config = [i \in Inv |-> NoConfig]
    /\ args = [i \in Inv |-> <<>>]

\* move invocation i to `to`, leaving its result and notifications alone
Goto(i, to) ==
    /\ pc' = [pc EXCEPT ![i] = to]
    /\ UNCHANGED <<result, notified, exitcode, stderr, last>>

\* run_record_action returns `res` after showing the notifications `notes`
Return(i, res, notes) ==
    /\ pc' = [pc EXCEPT ![i] = "ret"]
    /\ result' = [result EXCEPT ![i] = res]
    /\ notified' = [notified EXCEPT ![i] = notified[i] \cup notes]
    /\ UNCHANGED <<exitcode, stderr, last>>

\* --------------------------------------------------------- stop path
\* main: the program is invoked with action "record"
Begin(i) ==
    /\ pc[i] = "idle"
    /\ Goto(i, "read")
    /\ UNCHANGED <<shared, locals>>

\* the same, when invocations do not overlap
SeqBegin(i) ==
    /\ \A j \in Inv : pc[j] = "idle"
    /\ Begin(i)

\* run_record_action: if let Some(pid) = read_pid()
ReadPid(i) ==
    /\ pc[i] = "read"
    /\ found' = [found EXCEPT ![i] = pidfile]
    /\ Goto(i, IF pidfile = NoPid THEN "select" ELSE "probe")
    /\ UNCHANGED <<shared, probed, rect, bounds, child, sent, selection,
                   config, args>>

\* run_record_action: if process_exists(pid)
Probe(i) ==
    /\ pc[i] = "probe"
    /\ probed' = [probed EXCEPT ![i] = IF process_exists(found[i]) THEN "alive" ELSE "dead"]
    /\ Goto(i, IF process_exists(found[i]) THEN "kill" ELSE "rmstale")
    /\ UNCHANGED <<shared, found, rect, bounds, child, sent, selection,
                   config, args>>

\* stop_recording: `kill -INT pid` is run; only a failure to run it is an error
Kill(i) ==
    /\ pc[i] = "kill"
    /\ \/ /\ Return(i, "err_kill", {})
          /\ UNCHANGED <<shared, locals>>
       \/ /\ interrupted' = IF process_exists(found[i])
                            THEN interrupted \cup {found[i]}
                            ELSE interrupted
          /\ sent' = [sent EXCEPT ![i] = sent[i] \cup {found[i]}]
          /\ Goto(i, "stopsleep")
          /\ UNCHANGED <<pidfile, procs, nextpid, found, probed, rect, bounds, child, selection,
                   config, args>>

\* stop_recording without its remove_pidfile(): the marker outlives the stop
RemoveAfterStop_Keep(i) ==
    /\ pc[i] = "stopsleep"
    /\ Goto(i, "stopnotify")
    /\ UNCHANGED <<shared, locals>>

\* stop_recording: after the 250ms sleep, remove_pidfile()
RemoveAfterStop(i) ==
    /\ pc[i] = "stopsleep"
    /\ pidfile' = NoPid
    /\ Goto(i, "stopnotify")
    /\ UNCHANGED <<procs, interrupted, nextpid, locals>>

\* stop_recording: "Recording stopped" notification, Ok(())
StopNotify(i) ==
    /\ pc[i] = "stopnotify"
    /\ Return(i, "ok", {"Recording stopped"})
    /\ UNCHANGED <<shared, locals>>

\* run_record_action without the stale-marker remove_pidfile()
RemoveStale_Keep(i) ==
    /\ pc[i] = "rmstale"
    /\ Goto(i, "select")
    /\ UNCHANGED <<shared, locals>>

\* --------------------------------------------------------- start path
\* run_record_action: remove_pidfile() for a marker whose process is gone
RemoveStale(i) ==
    /\ pc[i] = "rmstale"
    /\ pidfile' = NoPid
    /\ Goto(i, "select")
    /\ UNCHANGED <<procs, interrupted, nextpid, locals>>

\* select_region without the raw.is_empty() test: empty output is parsed
SelectRegion_NoEmptyTest(i, outcomes, files) ==
    /\ pc[i] = "select"
    /\ \E file \in files :
         config' = [config EXCEPT ![i] = load_config(file)]
    /\ \E o \in outcomes :
         IF o.status = "noexec"
         THEN /\ selection' = [selection EXCEPT ![i] = "noexec"]
              /\ Return(i, "err_slop", {})
              /\ UNCHANGED rect
         ELSE IF o.status = "nonzero"
         THEN /\ selection' = [selection EXCEPT ![i] = "nonzero"]
              /\ Return(i, "ok", {})
              /\ UNCHANGED rect
         ELSE IF o.out = <<>>
         THEN /\ selection' = [selection EXCEPT ![i] = "empty"]
              /\ Return(i, "err_parse", {})
              /\ UNCHANGED rect
         ELSE LET parsed == parse_selection_geometry(o.out)
              IN IF parsed.ok
                 THEN /\ selection' = [selection EXCEPT ![i] = "region"]
                      /\ rect' = [rect EXCEPT ![i] = parsed.rect]
                      /\ Goto(i, "monitor")
                 ELSE /\ selection' = [selection EXCEPT ![i] = "unparsable"]
                      /\ Return(i, "err_parse", {})
                      /\ UNCHANGED rect
    /\ UNCHANGED <<shared, found, probed, bounds, child, sent, args>>

\* run_record_action: load_config, then select_region()? with the selector's
\* outcome drawn from `outcomes`
SelectRegion(i, outcomes, files) ==
    /\ pc[i] = "select"
    /\ \E file \in files :
         config' = [config EXCEPT ![i] = load_config(file)]
    /\ \E o \in outcomes :
         IF o.status = "noexec"
         THEN /\ selection' = [selection EXCEPT ![i] = "noexec"]
              /\ Return(i, "err_slop", {})
              /\ UNCHANGED rect
         ELSE IF o.status = "nonzero"
         THEN /\ selection' = [selection EXCEPT ![i] = "nonzero"]
              /\ Return(i, "ok", {})
              /\ UNCHANGED rect
         ELSE IF o.out = <<>>
         THEN /\ selection' = [selection EXCEPT ![i] = "empty"]
              /\ Return(i, "ok", {})
              /\ UNCHANGED rect
         ELSE LET parsed == parse_selection_geometry(o.out)
              IN IF parsed.ok
                 THEN /\ selection' = [selection EXCEPT ![i] = "region"]
                      /\ rect' = [rect EXCEPT ![i] = parsed.rect]
                      /\ Goto(i, "monitor")
                 ELSE /\ selection' = [selection EXCEPT ![i] = "unparsable"]
                      /\ Return(i, "err_parse", {})
                      /\ UNCHANGED rect
    /\ UNCHANGED <<shared, found, probed, bounds, child, sent, args>>

\* run_record_action: match monitor_for_selection(rect), Some arm clamps
MonitorForSelection(i, outcomes) ==
    /\ pc[i] = "monitor"
    /\ \E xr \in outcomes :
         LET m == monitor_for_selection(rect[i], xr)
         IN IF m.some
            THEN /\ rect' = [rect EXCEPT ![i] = clamp_to_bounds(rect[i], m.monitor)]
                 /\ bounds' = [bounds EXCEPT ![i] = m.monitor]
                 /\ Goto(i, "resolve")
            ELSE /\ Goto(i, "fullscreen")
                 /\ UNCHANGED <<rect, bounds>>
    /\ UNCHANGED <<shared, found, probed, child, sent, selection,
                   config, args>>

\* run_record_action: None arm, full_screen_monitor()? and clamp
FullScreenMonitor(i) ==
    /\ pc[i] = "fullscreen"
    /\ \E fs \in XdpyinfoOutcomes :
         IF fs.ok
         THEN /\ rect' = [rect EXCEPT ![i] = clamp_to_bounds(rect[i], fs.monitor)]
              /\ bounds' = [bounds EXCEPT ![i] = fs.monitor]
              /\ Goto(i, "resolve")
         ELSE /\ Return(i, "err_bounds", {})
              /\ UNCHANGED <<rect, bounds>>
    /\ UNCHANGED <<shared, found, probed, child, sent, selection,
                   config, args>>

\* run_record_action: bottom snap, validity test, even dimensions
Resolve(i) ==
    /\ pc[i] = "resolve"
    /\ LET snapped == SnapBottom(rect[i], bounds[i].y + bounds[i].h)
       IN IF InvalidArea(snapped)
          THEN /\ rect' = [rect EXCEPT ![i] = snapped]
               /\ Return(i, "err_region", {"Recording failed"})
          ELSE /\ rect' = [rect EXCEPT ![i] = MakeEven(snapped)]
               /\ Goto(i, "outfile")
    /\ UNCHANGED <<shared, found, probed, bounds, child, sent, selection,
                   config, args>>

\* run_record_action: output_file_path(..)?
OutputFilePath(i) ==
    /\ pc[i] = "outfile"
    /\ \/ Return(i, "err_outdir", {})
       \/ Goto(i, "logfile")
    /\ UNCHANGED <<shared, locals>>

\* start_recording: the argument list is built, then File::create(LOGFILE)?
\* and try_clone()?
CreateLog(i) ==
    /\ pc[i] = "logfile"
    /\ args' = [args EXCEPT ![i] =
                   EncoderArgs(rect[i], config[i],
                               output_file_path(config[i].video.format))]
    /\ \/ Return(i, "err_log", {})
       \/ Goto(i, "spawn")
    /\ UNCHANGED <<shared, found, probed, rect, bounds, child, sent,
                   selection, config>>

\* start_recording: Command::new("ffmpeg") .. .spawn()?, child.id()
Spawn(i) ==
    /\ pc[i] = "spawn"
    /\ \/ /\ Return(i, "err_spawn", {})
          /\ UNCHANGED <<shared, locals>>
       \/ /\ nextpid \in Pids
          /\ child' = [child EXCEPT ![i] = nextpid]
          /\ procs' = [procs EXCEPT ![nextpid] = "running"]
          /\ nextpid' = nextpid + 1
          /\ Goto(i, "writepid")
          /\ UNCHANGED <<pidfile, interrupted, found, probed, rect, bounds, sent, selection,
                   config, args>>

\* start_recording that never writes the pid file
WritePid_Skip(i) ==
    /\ pc[i] = "writepid"
    /\ Goto(i, "grace")
    /\ UNCHANGED <<shared, locals>>

\* start_recording: fs::write(PIDFILE, pid)?
WritePid(i) ==
    /\ pc[i] = "writepid"
    /\ \/ /\ Return(i, "err_pidwrite", {})
          /\ UNCHANGED pidfile
       \/ /\ pidfile' = child[i]
          /\ Goto(i, "grace")
    /\ UNCHANGED <<procs, interrupted, nextpid, locals>>

\* start_recording: after the 500ms sleep, if process_exists(pid)
CheckAlive(i) ==
    /\ pc[i] = "grace"
    /\ IF process_exists(child[i])
       THEN Return(i, "ok", {"Recording started"})
       ELSE Goto(i, "cleanup")
    /\ UNCHANGED <<shared, locals>>

\* start_recording without the remove_pidfile() after a dead encoder
Cleanup_Keep(i) ==
    /\ pc[i] = "cleanup"
    /\ Goto(i, "failnotify")
    /\ UNCHANGED <<shared, locals>>

\* start_recording: remove_pidfile() after the encoder died
Cleanup(i) ==
    /\ pc[i] = "cleanup"
    /\ pidfile' = NoPid
    /\ Goto(i, "failnotify")
    /\ UNCHANGED <<procs, interrupted, nextpid, locals>>

\* start_recording: "Recording failed" notification, Err
FailNotify(i) ==
    /\ pc[i] = "failnotify"
    /\ Return(i, "err_launch", {"Recording failed"})
    /\ UNCHANGED <<shared, locals>>

\* ------------------------------------------------------------- exit
\* what an invocation did, for the next one to be compared with
Summary(i) ==
    IF result[i] # "ok" THEN [kind |-> "failed", pid |-> NoPid]
    ELSE IF child[i] # NoPid THEN [kind |-> "started", pid |-> child[i]]
    ELSE IF sent[i] # {} THEN [kind |-> "stopped", pid |-> found[i]]
    ELSE [kind |-> "cancelled", pid |-> NoPid]

\* main: match result, eprintln on Err, the exit code
Main(i) ==
    /\ pc[i] = "ret"
    /\ pc' = [pc EXCEPT ![i] = "exited"]
    /\ exitcode' = [exitcode EXCEPT ![i] = IF result[i] = "ok" THEN 0 ELSE 1]
    /\ stderr' = [stderr EXCEPT ![i] = result[i] # "ok"]
    /\ last' = Summary(i)
    /\ UNCHANGED <<shared, locals, result, notified>>

\* the process is gone; nothing of it is carried to the next invocation
Reap(i) ==
    /\ pc[i] = "exited"
    /\ pc' = [pc EXCEPT ![i] = "idle"]
    /\ found' = [found EXCEPT ![i] = NoPid]
    /\ rect' = [rect EXCEPT ![i] = NoRect]
    /\ bounds' = [bounds EXCEPT ![i] = NoRect]
    /\ child' = [child EXCEPT ![i] = NoPid]
    /\ result' = [result EXCEPT ![i] = "none"]
    /\ sent' = [sent EXCEPT ![i] = {}]
    /\ probed' = [probed EXCEPT ![i] = "none"]
    /\ selection' = [selection EXCEPT ![i] = "none"]
    /\ notified' = [notified EXCEPT ![i] = {}]
    /\ exitcode' = [exitcode EXCEPT ![i] = -1]
    /\ stderr' = [stderr EXCEPT ![i] = FALSE]
    /\ config' = [config EXCEPT ![i] = NoConfig]
    /\ args' = [args EXCEPT ![i] = <<>>]
    /\ UNCHANGED <<shared, last>>

\* ------------------------------------------------------- environment
\* an encoder process ends: it finishes after SIGINT, or it dies by itself
ProcExit(p) ==
    /\ procs[p] = "running"
    /\ procs' = [procs EXCEPT ![p] = "dead"]
    /\ UNCHANGED <<pidfile, interrupted, nextpid, last, pc, locals, result,
                   notified, exitcode, stderr>>

\* the stop path and the stale-marker cleanup of a running invocation
StopStep(i) ==
    \/ Probe(i) \/ Kill(i) \/ RemoveAfterStop(i) \/ StopNotify(i) \/ RemoveStale(i)

\* the start path of a running invocation, with the given outside inputs
StartStep(i, slop, xrandr, files) ==
    \/ ReadPid(i) \/ SelectRegion(i, slop, files) \/ MonitorForSelection(i, xrandr)
    \/ FullScreenMonitor(i) \/ Resolve(i) \/ OutputFilePath(i) \/ CreateLog(i)
    \/ Spawn(i) \/ WritePid(i) \/ CheckAlive(i) \/ Cleanup(i) \/ FailNotify(i)
    \/ Main(i) \/ Reap(i)

\* invocations may overlap
Next ==
    \/ \E i \in Inv : Begin(i) \/ StopStep(i)
                      \/ StartStep(i, FewSlopOutcomes, FewXrandrOutcomes, NoConfigFiles)
    \/ \E p \in Pids : ProcExit(p)

Spec == Init /\ [][Next]_vars

\* invocations never overlap: one starts only when no other is running
SeqNext ==
    \/ \E i \in Inv : SeqBegin(i) \/ StopStep(i)
                      \/ StartStep(i, SeqSlopOutcomes, FewXrandrOutcomes, NoConfigFiles)
    \/ \E p \in Pids : ProcExit(p)

SeqSpec == Init /\ [][SeqNext]_vars

\* the first invocation after login, on every selector and monitor outcome
FirstBegin(i) ==
    /\ last.kind = "none"
    /\ SeqBegin(i)

GeoNext ==
    \/ \E i \in Inv : FirstBegin(i)
                      \/ StartStep(i, SlopOutcomes, XrandrOutcomes, NoConfigFiles)
    \/ \E p \in Pids : ProcExit(p)

GeoSpec == Init /\ [][GeoNext]_vars

\* the first invocation after login, on every config.json
CfgNext ==
    \/ \E i \in Inv : FirstBegin(i)
                      \/ StartStep(i, FewSlopOutcomes, FewXrandrOutcomes, ConfigFiles)
    \/ \E p \in Pids : ProcExit(p)

CfgSpec == Init /\ [][CfgNext]_vars

TypeOK ==
    /\ pidfile \in Pids \cup {NoPid}
    /\ procs \in [Pids -> {"unborn", "running", "dead"}]
    /\ interrupted \subseteq Pids
    /\ nextpid \in 1..(MaxPid + 1)
    /\ \A i \in Inv : result[i] \in Results /\ child[i] \in Pids \cup {NoPid}

\* ================================================================ claims
\* where an invocation is once run_record_action has returned
Returned(i) == pc[i] \in {"ret", "exited"}
\* where an invocation is inside start_recording(rect, ..)
InStartRecording(i) ==
    pc[i] \in {"logfile", "spawn", "writepid", "grace", "cleanup", "failnotify"}

\* C1: under any interleaving of overlapping record invocations, at most one
\* capture process spawned by the tool is alive at any time.
C1_AtMostOneCapture == Cardinality(Alive) <= 1

\* C2: the marker never holds the pid of a spawned process whose post-spawn
\* liveness check has not yet succeeded (it is written only after the check).
C2_MarkerOnlyAfterLivenessCheck ==
    \A i \in Inv :
        pc[i] \in {"writepid", "grace", "cleanup"} => pidfile # child[i]

\* C3: every rectangle passed to start_recording has w > 0, h > 0 and both even.
C3_LaunchRectPositiveEven ==
    \A i \in Inv :
        InStartRecording(i) =>
            /\ rect[i].w > 0
            /\ rect[i].h > 0
            /\ rect[i].w % 2 = 0
            /\ rect[i].h % 2 = 0

\* C4 (as claimed): an invocation whose probe found the marker's process alive
\* never selects a region and never spawns; it signals exactly that pid, then
\* removes the marker, and returns success.
C4_StopPathOnly ==
    \A i \in Inv :
        probed[i] = "alive" =>
            /\ selection[i] = "none"
            /\ child[i] = NoPid
            /\ sent[i] \subseteq {found[i]}
            /\ pidfile = NoPid => sent[i] = {found[i]}
            /\ Returned(i) =>
                   /\ result[i] = "ok"
                   /\ sent[i] = {found[i]}
                   /\ pidfile = NoPid

\* C4 (amended): as above, except that when the kill command cannot be run the
\* invocation returns an error, has signalled nothing and leaves the marker.
C4_StopPathOnlyUnlessKillFails ==
    \A i \in Inv :
        probed[i] = "alive" =>
            /\ selection[i] = "none"
            /\ child[i] = NoPid
            /\ sent[i] \subseteq {found[i]}
            /\ pidfile = NoPid => sent[i] = {found[i]}
            /\ Returned(i) =>
                   IF result[i] = "ok"
                   THEN sent[i] = {found[i]} /\ pidfile = NoPid
                   ELSE result[i] = "err_kill" /\ sent[i] = {} /\ pidfile = found[i]

C4_Witness ==
    \E i \in Inv :
        /\ probed[i] = "alive"
        /\ Returned(i)
        /\ result[i] = "ok"
        /\ found[i] \in interrupted
        /\ pidfile = NoPid

\* C5: an invocation that found a marker of a process that does not exist goes
\* on exactly as one that found no marker: no signal is sent, the marker is
\* absent when region selection begins and until the pid is written, and on
\* return the marker is decided by the outcome alone (the new pid after a
\* successful start, absent otherwise).
C5_StaleMarkerLikeNoMarker ==
    \A i \in Inv :
        (probed[i] = "dead" \/ (found[i] = NoPid /\ pc[i] \notin {"idle", "read"})) =>
            /\ sent[i] = {}
            /\ pc[i] \notin {"kill", "stopsleep", "stopnotify"}
            /\ pc[i] \in {"select", "monitor", "fullscreen", "resolve", "outfile",
                          "logfile", "spawn", "writepid"} => pidfile = NoPid
            /\ Returned(i) =>
                   /\ selection[i] # "none"
                   /\ pidfile = IF result[i] = "ok" /\ child[i] # NoPid
                                THEN child[i] ELSE NoPid

C5_Witness ==
    \E i \in Inv :
        /\ probed[i] = "dead"
        /\ found[i] # NoPid
        /\ Returned(i)
        /\ result[i] = "ok"
        /\ child[i] # NoPid
        /\ pidfile = child[i]

\* C6: with invocations one after the other, an invocation that starts a
\* session leaves the marker holding its new pid; the next one reads that pid
\* and, the process being alive, stops it and leaves no marker; the one after a
\* stop reads no marker at all and, when it starts a session, the marker holds
\* the fresh pid, which differs from the stopped one.
C6_ToggleSequence ==
    \A i \in Inv :
        pc[i] \notin {"idle", "read", "exited"} =>
            /\ last.kind = "started" => found[i] = last.pid
            /\ last.kind = "stopped" => found[i] = NoPid /\ probed[i] = "none"
            /\ (pc[i] = "ret" /\ result[i] = "ok" /\ child[i] # NoPid) =>
                   /\ pidfile = child[i]
                   /\ child[i] # last.pid
                   /\ sent[i] = {}
            /\ (pc[i] = "ret" /\ result[i] = "ok" /\ probed[i] = "alive") =>
                   /\ pidfile = NoPid
                   /\ sent[i] = {found[i]}
                   /\ child[i] = NoPid

C6_Witness ==
    \E i \in Inv :
        /\ last.kind = "stopped"
        /\ last.pid \in Pids
        /\ pc[i] = "ret"
        /\ result[i] = "ok"
        /\ child[i] \in Pids \ {last.pid}
        /\ pidfile = child[i]

\* C7: a start-path invocation that returns an error leaves no marker and no
\* live capture process of its own.
C7_FailedStartStaysIdle ==
    \A i \in Inv :
        (Returned(i) /\ selection[i] # "none" /\ result[i] # "ok") =>
            /\ pidfile = NoPid
            /\ ~process_exists(child[i])

\* C8: when the encoder is dead at the liveness check after the grace window,
\* the invocation goes on to remove the marker and return the launch error,
\* and the marker is absent from the removal until the invocation has exited.
C8_DeadEncoderNoMarker ==
    /\ [](\A i \in Inv :
            (pc[i] = "failnotify" \/ (Returned(i) /\ result[i] = "err_launch")) =>
                /\ pidfile = NoPid
                /\ child[i] # NoPid
                /\ ~process_exists(child[i]))
    /\ [][\A i \in Inv :
            /\ (pc[i] = "grace" /\ pc'[i] # "grace" /\ ~process_exists(child[i])) =>
                   pc'[i] = "cleanup"
            /\ (pc[i] = "cleanup" /\ pc'[i] # "cleanup") =>
                   pc'[i] = "failnotify" /\ pidfile' = NoPid
            /\ (pc[i] = "failnotify" /\ pc'[i] # "failnotify") =>
                   pc'[i] = "ret" /\ result'[i] = "err_launch"]_vars

C8_Witness ==
    \E i \in Inv :
        /\ pc[i] = "exited"
        /\ result[i] = "err_launch"
        /\ exitcode[i] = 1
        /\ pidfile = NoPid

\* C9 (as claimed): whenever the clamped rectangle has w = 0 or h = 0, the
\* invocation fails with the invalid-region error and spawns nothing.
C9_ZeroAfterClampFails ==
    [][\A i \in Inv :
         (pc[i] = "resolve" /\ pc'[i] # "resolve"
            /\ (rect[i].w = 0 \/ rect[i].h = 0)) =>
             /\ pc'[i] = "ret"
             /\ result'[i] = "err_region"
             /\ child'[i] = NoPid]_vars

\* C9 (amended): whenever the clamped rectangle has w = 0, or has h = 0 and
\* its bottom is not 1..SNAP_MARGIN_PX above the bottom of its bounds (so that
\* the snap leaves h = 0), the invocation fails with the invalid-region error;
\* an invocation that failed so has spawned nothing and has returned.
C9_ZeroAfterSnapFails ==
    /\ [][\A i \in Inv :
            LET gap == (bounds[i].y + bounds[i].h) - (rect[i].y + rect[i].h)
            IN (pc[i] = "resolve" /\ pc'[i] # "resolve"
                  /\ (rect[i].w = 0 \/ (rect[i].h = 0 /\ gap \notin 1..SNAP_MARGIN_PX))) =>
                   /\ pc'[i] = "ret"
                   /\ result'[i] = "err_region"
                   /\ child'[i] = NoPid]_vars
    /\ [](\A i \in Inv :
            result[i] = "err_region" => Returned(i) /\ child[i] = NoPid)

C9_Witness ==
    \E i \in Inv :
        /\ Returned(i)
        /\ result[i] = "err_region"
        /\ rect[i].w > 0
        /\ rect[i].h = 0
        /\ child[i] = NoPid

\* C10: when the selector exits non-zero or prints nothing, the invocation
\* returns success having done nothing: no capture process, no signal, no
\* notification, no marker, and exit code 0.
C10_CancelNoAction ==
    \A i \in Inv :
        selection[i] \in {"nonzero", "empty"} =>
            /\ Returned(i)
            /\ result[i] = "ok"
            /\ child[i] = NoPid
            /\ sent[i] = {}
            /\ notified[i] = {}
            /\ pidfile = NoPid
            /\ pc[i] = "exited" => exitcode[i] = 0 /\ ~stderr[i]

C10_Witness ==
    \E i \in Inv :
        /\ selection[i] = "empty"
        /\ pc[i] = "exited"
        /\ exitcode[i] = 0
        /\ Alive = {}

\* C11: every invocation that exits non-zero has printed its error on standard
\* error and has shown a desktop notification.
C11_FatalErrorsNotified ==
    \A i \in Inv :
        (pc[i] = "exited" /\ exitcode[i] # 0) =>
            /\ stderr[i]
            /\ "Recording failed" \in notified[i]

\* C12: no failure of a monitor or display query makes the invocation return
\* an error: after a failed or fruitless monitor discovery the region is
\* resolved against the full-display bounds.
C12_QueryFailureNeverFatal ==
    \A i \in Inv :
        /\ result[i] # "err_bounds"
        /\ pc[i] = "fullscreen" => result[i] = "none"

\* geometry of the claims, written without the program's operators
Max(a, b) == IF a >= b THEN a ELSE b
Min(a, b) == IF a <= b THEN a ELSE b
\* r lies inside b
Within(r, b) ==
    /\ b.x <= r.x
    /\ b.y <= r.y
    /\ r.x + r.w <= b.x + b.w
    /\ r.y + r.h <= b.y + b.h
\* r and b share interior points
Overlaps(r, b) ==
    /\ Max(r.x, b.x) < Min(r.x + r.w, b.x + b.w)
    /\ Max(r.y, b.y) < Min(r.y + r.h, b.y + b.h)
\* the geometric intersection of r and b
Intersection(r, b) ==
    MkRect(Max(r.x, b.x), Max(r.y, b.y),
           Min(r.x + r.w, b.x + b.w) - Max(r.x, b.x),
           Min(r.y + r.h, b.y + b.h) - Max(r.y, b.y))

\* C13: every clamp of a rectangle with w, h > 0 against bounds with w, h > 0
\* never expands it; leaves it unchanged when it lies inside the bounds; gives
\* exactly the intersection when it overlaps the bounds; and gives w <= 0 or
\* h <= 0 when it does not overlap. {-10,-10,100,100} against {0,0,200,200}
\* gives {0,0,90,90}.
C13_ClampIsIntersection ==
    /\ [][\A i \in Inv :
            (pc[i] \in {"monitor", "fullscreen"} /\ pc'[i] = "resolve"
               /\ rect[i].w > 0 /\ rect[i].h > 0
               /\ bounds'[i].w > 0 /\ bounds'[i].h > 0) =>
                /\ rect'[i].w <= rect[i].w
                /\ rect'[i].h <= rect[i].h
                /\ Within(rect[i], bounds'[i]) => rect'[i] = rect[i]
                /\ Overlaps(rect[i], bounds'[i]) =>
                       rect'[i] = Intersection(rect[i], bounds'[i])
                /\ ~Overlaps(rect[i], bounds'[i]) =>
                       rect'[i].w <= 0 \/ rect'[i].h <= 0]_vars
    /\ [](clamp_to_bounds(MkRect(-10, -10, 100, 100), MkRect(0, 0, 200, 200))
            = MkRect(0, 0, 90, 90))

C13_Witness ==
    \E i \in Inv :
        /\ pc[i] = "resolve"
        /\ bounds[i] = MonA
        /\ rect[i] = MkRect(0, 0, 11, 11)

\* C14: with gap = (bounds.y + bounds.h) - (y + h) of the clamped rectangle,
\* the snap sets h so that y + h is the bounds' bottom when 0 < gap <= 50 and
\* leaves the rectangle alone otherwise; x, y and w are never changed by it.
\* (What the step leaves in rect is the snapped rectangle, with odd
\* dimensions then decremented unless the area is invalid.)
C14_BottomSnap ==
    [][\A i \in Inv :
         (pc[i] = "resolve" /\ pc'[i] # "resolve") =>
             LET bottom == bounds[i].y + bounds[i].h
                 gap == bottom - (rect[i].y + rect[i].h)
                 h == IF 0 < gap /\ gap <= 50 THEN bottom - rect[i].y ELSE rect[i].h
                 snapped == [rect[i] EXCEPT !.h = h]
             IN /\ SnapBottom(rect[i], bottom) = snapped
                /\ (0 < gap /\ gap <= 50) => snapped.y + snapped.h = bottom
                /\ rect'[i].x = rect[i].x
                /\ rect'[i].y = rect[i].y
                /\ IF pc'[i] = "ret"
                   THEN rect'[i] = snapped
                   ELSE /\ rect'[i].h \in {h, h - 1}
                        /\ rect'[i].h % 2 = 0
                        /\ rect'[i].w \in {rect[i].w, rect[i].w - 1}]_vars

\* a 40px gap to the bottom of the monitor was closed
C14_Witness ==
    \E i \in Inv :
        /\ pc[i] = "outfile"
        /\ bounds[i] = MonA
        /\ rect[i] = MkRect(0, 70, 10, 50)

\* monitor m owns rectangle r: half-open containment of r's centre
Owns(m, r) ==
    LET cx == r.x + (r.w \div 2)
        cy == r.y + (r.h \div 2)
    IN /\ m.x <= cx /\ cx < m.x + m.w
       /\ m.y <= cy /\ cy < m.y + m.h

\* C15: the selection is clamped to the first monitor, in discovery order,
\* that owns it (centre inside, left/top edge included, right/bottom edge
\* excluded); when discovery fails or no monitor owns it, the full-display
\* query is made and the selection is clamped to {0, 0, W, H}.
C15_MonitorOwnership ==
    /\ [](\A i \in Inv : \A xr \in XrandrOutcomes :
            pc[i] = "monitor" =>
                LET owners == {k \in 1..Len(xr.monitors) : Owns(xr.monitors[k], rect[i])}
                    m == monitor_for_selection(rect[i], xr)
                IN /\ m.some <=> (xr.ok /\ owners # {})
                   /\ m.some => \E k \in owners : /\ \A j \in owners : k <= j
                                                   /\ m.monitor = xr.monitors[k])
    /\ [][\A i \in Inv :
         /\ (pc[i] = "monitor" /\ pc'[i] # "monitor") =>
                \E xr \in XrandrOutcomes :
                    LET owners == {k \in 1..Len(xr.monitors) : Owns(xr.monitors[k], rect[i])}
                    IN IF xr.ok /\ owners # {}
                       THEN \E k \in owners :
                               /\ \A j \in owners : k <= j
                               /\ pc'[i] = "resolve"
                               /\ bounds'[i] = xr.monitors[k]
                               /\ rect'[i] = clamp_to_bounds(rect[i], xr.monitors[k])
                       ELSE /\ pc'[i] = "fullscreen"
                            /\ rect'[i] = rect[i]
         /\ (pc[i] = "fullscreen" /\ pc'[i] = "resolve") =>
                /\ bounds'[i].x = 0
                /\ bounds'[i].y = 0
                /\ rect'[i] = clamp_to_bounds(rect[i], bounds'[i])]_vars

\* a centre on the edge shared by two monitors went to the right-hand one
C15_Witness ==
    \E i \in Inv :
        /\ pc[i] = "resolve"
        /\ bounds[i] = MonB
        /\ rect[i] = MkRect(40, 0, 5, 10)

\* C16: no invocation removes a marker that holds, at that moment, the pid of
\* a live capture process to which that invocation has sent no interrupt.
C16_NoForeignMarkerDeleted ==
    [][\A i \in Inv :
         (pc[i] \in {"rmstale", "stopsleep", "cleanup"} /\ pc'[i] # pc[i]
            /\ pidfile # NoPid /\ pidfile' = NoPid) =>
             ~(process_exists(pidfile) /\ pidfile \notin sent[i])]_vars

\* C17: with invocations one after the other, whenever none is in progress an
\* absent marker means that no capture process spawned by the tool is alive.
C17_NoUntrackedCapture ==
    ((\A i \in Inv : pc[i] = "idle") /\ pidfile = NoPid) => Alive = {}

\* C18: every rectangle for which a capture process is spawned lies inside the
\* bounds it was resolved against, after snap and even-dimension enforcement.
C18_LaunchRectWithinBounds ==
    \A i \in Inv :
        (InStartRecording(i) \/ child[i] # NoPid) =>
            /\ bounds[i].x <= rect[i].x
            /\ bounds[i].y <= rect[i].y
            /\ rect[i].x + rect[i].w <= bounds[i].x + bounds[i].w
            /\ rect[i].y + rect[i].h <= bounds[i].y + bounds[i].h

\* a capture was spawned for a rectangle that ends exactly on the bottom edge
\* of the monitor it was resolved against
C18_Witness ==
    \E i \in Inv :
        /\ child[i] # NoPid
        /\ bounds[i] = MonA
        /\ rect[i] = MkRect(0, 90, 10, 30)

\* the devices of the pulse inputs ("-f pulse -i <device>") of an argument
\* list, in the order they appear
PulseInputs(a) ==
    LET pos == {k \in 1..(Len(a) - 3) :
                  a[k] = "-f" /\ a[k + 1] = "pulse" /\ a[k + 2] = "-i"}
        nth(n) == CHOOSE k \in pos : Cardinality({j \in pos : j < k}) = n - 1
    IN [n \in 1..Cardinality(pos) |-> a[nth(n) + 3]]

\* whether the argument list has the option `opt` followed by `value`
HasOption(a, opt, value) ==
    \E k \in 1..(Len(a) - 1) : a[k] = opt /\ a[k + 1] = value

\* whether the word occurs in the argument list
HasWord(a, word) == \E k \in 1..Len(a) : a[k] = word

\* C19: the audio part of the encoder's argument list depends only on
\* audio.enabled and on whether "mic" and "system" are members of audio.inputs:
\* both give the mic and the system-monitor inputs merged by a two-input merge
\* filter, "mic" alone gives the mic input, "system" alone gives the
\* system-monitor input, and disabled or neither gives no audio input and no
\* audio codec arguments.
C19_AudioBranch ==
    \A i \in Inv :
        args[i] # <<>> =>
            LET a == args[i]
                audio == config[i].audio
                names == {audio.inputs[k] : k \in 1..Len(audio.inputs)}
                mic == audio.enabled /\ "mic" \in names
                system == audio.enabled /\ "system" \in names
                monitor == audio.system_device \o ".monitor"
                codec == HasOption(a, "-c:a", "aac") /\ HasOption(a, "-b:a", "192k")
                merged ==
                    /\ HasOption(a, "-filter_complex",
                                 "[1:a][2:a]amerge=inputs=2[aout]")
                    /\ HasOption(a, "-map", "0:v")
                    /\ HasOption(a, "-map", "[aout]")
                unmerged == ~HasWord(a, "-filter_complex") /\ ~HasWord(a, "-map")
            IN /\ (mic /\ system) =>
                    /\ PulseInputs(a) = <<audio.mic_device, monitor>>
                    /\ merged /\ codec
               /\ (mic /\ ~system) =>
                    /\ PulseInputs(a) = <<audio.mic_device>>
                    /\ unmerged /\ codec
               /\ (system /\ ~mic) =>
                    /\ PulseInputs(a) = <<monitor>>
                    /\ unmerged /\ codec
               /\ (~mic /\ ~system) =>
                    /\ PulseInputs(a) = <<>>
                    /\ unmerged
                    /\ ~HasWord(a, "-c:a") /\ ~HasWord(a, "-b:a")
                    /\ ~HasWord(a, "aac")

\* an encoder was spawned with both inputs merged for a config whose inputs
\* list "system" twice and before "mic"
C19_Witness ==
    \E i \in Inv :
        /\ child[i] # NoPid
        /\ config[i].audio.enabled
        /\ config[i].audio.inputs = <<"system", "system", "mic">>
        /\ PulseInputs(args[i]) = <<"usb_mic", "hdmi_out.monitor">>

====
